---- MODULE Spec2Model ----
(***************************************************************************)
(* Model of scripts/build_powerplants.py: the batch pipeline that builds   *)
(* the table of conventional power plants (ppl), merges custom and         *)
(* "everywhere" plants into it, assigns every plant to a bus and           *)
(* disambiguates the names.                                                *)
(*                                                                         *)
(* A dataframe is a sequence of rows.  A row is a record of its columns    *)
(* plus two fields that are not columns: idx, the row's index label, and   *)
(* origin, the input the row came from.  Strings that are concatenated     *)
(* with " " (the Name column) are sequences of space-free words, so that   *)
(* two names are the same string exactly when they are the same sequence.  *)
(***************************************************************************)
EXTENDS Integers, Sequences, FiniteSets, TLC

VARIABLES pc, ppl, cfg, warnings, customRead, output, snap

vars == <<pc, ppl, cfg, warnings, customRead, output, snap>>

\* ---------------------------------------------------------------- bounds
MaxBase == 2
MaxOpsd == 1
MaxCustom == 1
MaxEvery == 2
MaxCanonRows == 2
MaxDedupRows == 3

\* ---------------------------------------------------------------- values
\* a missing value of a numeric column (numbers are <<v>>)
NaN == <<>>
\* a missing value of a string column
NA == "<NA>"

Some(v) == <<v>>

SeqsUpTo(S, n) == UNION {[1..k -> S] : k \in 0..n}

Range(s) == {s[i] : i \in DOMAIN s}

\* the words of a fuel type, as they enter a Name
Words(f) == IF f = "Natural Gas" THEN <<"Natural", "Gas">> ELSE <<f>>

Row(name, fuel, tech, country, lat, lon, datein, dateout, origin) ==
  [Name |-> name, Fueltype |-> fuel, Technology |-> tech, Set |-> "PP",
   Country |-> country, Capacity |-> 100, DateIn |-> datein,
   DateOut |-> dateout, Efficiency |-> NaN, lat |-> lat, lon |-> lon,
   bus |-> NA, idx |-> 0, origin |-> origin]

\* the columns of a row: everything but its index label and its origin
Cols(r) == [r EXCEPT !.idx = 0, !.origin = "any"]

\* read a table: rows are labelled 0..n-1
Labelled(rows) == [i \in DOMAIN rows |-> [rows[i] EXCEPT !.idx = i - 1]]

\* ---------------------------------------------------------------- queries
\* a configured query is the boolean false/true or a query string; the
\* query strings of the model are "Country in [...]"/"Country not in [...]"
QBool(b) == [kind |-> "bool", val |-> b, op |-> "", vals |-> {}]
QStr(op, vals) == [kind |-> "str", val |-> TRUE, op |-> op, vals |-> vals]

IsStr(q) == q.kind = "str"
Truthy(q) == q.val

EvalQuery(q, r) ==
  IF q.op = "in" THEN r.Country \in q.vals ELSE r.Country \notin q.vals

\* ---------------------------------------------------------------- concat
\* pd.concat([a, b], ignore_index=.., verify_integrity=..): the rows of a
\* then those of b; ignore_index relabels the result 0..n-1;
\* verify_integrity raises when the labels of the result are not unique.
concat_rowcheck(a, b, ignore_index, verify_integrity) ==
  LET rows == a \o b
      df == IF ignore_index THEN Labelled(rows) ELSE rows
      unique == \A i, j \in DOMAIN df : Cols(df[i]) = Cols(df[j]) => i = j
  IN [df |-> df, raised |-> verify_integrity /\ ~unique]

concat(a, b, ignore_index, verify_integrity) ==
  LET rows == a \o b
      df == IF ignore_index THEN Labelled(rows) ELSE rows
      unique == \A i, j \in DOMAIN df : df[i].idx = df[j].idx => i = j
  IN [df |-> df, raised |-> verify_integrity /\ ~unique]

\* ---------------------------------------------------------------- custom
add_custom_powerplants_noguard(p, custom_powerplants, custom_ppl_query) ==
  LET add_ppls == Labelled(custom_powerplants)
      c == concat(p, add_ppls, TRUE, TRUE)
  IN [df |-> c.df, raised |-> c.raised, read |-> TRUE]

add_custom_powerplants(p, custom_powerplants, custom_ppl_query) ==
  IF ~Truthy(custom_ppl_query)
  THEN [df |-> p, raised |-> FALSE, read |-> FALSE]
  ELSE LET add_ppls == Labelled(custom_powerplants)
           queried == IF IsStr(custom_ppl_query)
                      THEN SelectSeq(add_ppls,
                                     LAMBDA r : EvalQuery(custom_ppl_query, r))
                      ELSE add_ppls
           c == concat(p, queried, TRUE, TRUE)
       IN [df |-> c.df, raised |-> c.raised, read |-> TRUE]

\* ---------------------------------------------------------------- everywhere
SetMin(S) == CHOOSE m \in S : \A x \in S : m <= x
SetMax(S) == CHOOSE m \in S : \A x \in S : x <= m

\* Series.min() / Series.max(): missing values are skipped, NaN if none left
ColMin(vals) ==
  LET present == {v[1] : v \in {w \in vals : w # NaN}}
  IN IF present = {} THEN NaN ELSE Some(SetMin(present))
ColMax(vals) ==
  LET present == {v[1] : v \in {w \in vals : w # NaN}}
  IN IF present = {} THEN NaN ELSE Some(SetMax(present))

\* the frame of everywhere plants: itertools.product(substations, fuels),
\* merged with the substations' x, y, country
everywhere_frame(p, substations, everywhere_powerplants) ==
  LET K == Len(everywhere_powerplants)
      N == Len(substations)
  IN [k \in 1..(N * K) |->
        LET s == substations[((k - 1) \div K) + 1]
            f == everywhere_powerplants[((k - 1) % K) + 1]
        IN [Name |-> <<"Automatically", "added", "everywhere-powerplant">>
                       \o Words(f),
            Fueltype |-> f, Technology |-> f, Set |-> "PP",
            Country |-> s.country, Capacity |-> 0,
            DateIn |-> ColMin({r.DateIn : r \in Range(p)}),
            DateOut |-> ColMax({r.DateOut : r \in Range(p)}),
            Efficiency |-> NaN, lat |-> Some(s.y), lon |-> Some(s.x),
            bus |-> NA, idx |-> k - 1, origin |-> "everywhere"]]

add_everywhere_powerplants_firstfuel(p, substations, everywhere_powerplants) ==
  concat(p,
         everywhere_frame(p, substations,
                          SubSeq(everywhere_powerplants, 1,
                                 IF Len(everywhere_powerplants) > 0
                                 THEN 1 ELSE 0)),
         TRUE, TRUE)

add_everywhere_powerplants(p, substations, everywhere_powerplants) ==
  concat(p, everywhere_frame(p, substations, everywhere_powerplants),
         TRUE, TRUE)

\* ---------------------------------------------------------------- natural gas
\* Series.replace(mapping)
replace_mapping(t) ==
  IF t = "Steam Turbine" THEN "CCGT"
  ELSE IF t = "Combustion Engine" THEN "OCGT"
  ELSE t

fillna(t, default) == IF t = NA THEN default ELSE t

replace_natural_gas_technology_chained(df) ==
  [i \in DOMAIN df |->
     IF df[i].Fueltype = "Natural Gas"
     THEN fillna(replace_mapping(df[i].Technology), "Steam Turbine")
     ELSE df[i].Technology]

\* the new Technology column
replace_natural_gas_technology(df) ==
  [i \in DOMAIN df |->
     LET tech == fillna(replace_mapping(df[i].Technology), "CCGT")
     IN IF df[i].Fueltype = "Natural Gas" THEN tech ELSE df[i].Technology]

replace_natural_gas_fueltype_ocgt_only(df) ==
  [i \in DOMAIN df |->
     IF df[i].Technology = "OCGT" THEN "Natural Gas" ELSE df[i].Fueltype]

\* the new Fueltype column
replace_natural_gas_fueltype(df) ==
  [i \in DOMAIN df |->
     IF df[i].Technology = "OCGT" \/ df[i].Technology = "CCGT"
     THEN "Natural Gas"
     ELSE df[i].Fueltype]

\* DataFrame.assign(Technology=...) and .assign(Fueltype=...)
assign_Technology(df) ==
  LET col == replace_natural_gas_technology(df)
  IN [i \in DOMAIN df |-> [df[i] EXCEPT !.Technology = col[i]]]

assign_Fueltype(df) ==
  LET col == replace_natural_gas_fueltype(df)
  IN [i \in DOMAIN df |-> [df[i] EXCEPT !.Fueltype = col[i]]]

\* ---------------------------------------------------------------- main
InCountries(c, countries) == c \in Range(countries)

\* ppl = pm.powerplants(...).query(...).assign(...).assign(...)
base_powerplants(raw, countries) ==
  LET fetched == Labelled(raw)
      queried == SelectSeq(fetched,
                           LAMBDA r : /\ r.Fueltype \notin {"Solar", "Wind"}
                                      /\ InCountries(r.Country, countries))
  IN assign_Fueltype(assign_Technology(queried))

\* the bioenergy correction: OPSD rows replace the Bioenergy rows of the
\* countries OPSD covers; plain pd.concat, labels kept
correct_bioenergy(p, opsd_raw, countries) ==
  LET opsd == SelectSeq(Labelled(opsd_raw),
                        LAMBDA r : /\ InCountries(r.Country, countries)
                                   /\ r.Fueltype = "Bioenergy")
      named == [i \in DOMAIN opsd |-> [opsd[i] EXCEPT !.Name = <<"Biomass">>]]
      available_countries == {r.Country : r \in Range(named)}
      kept == SelectSeq(p, LAMBDA r : ~(/\ r.Country \in available_countries
                                        /\ r.Fueltype = "Bioenergy"))
  IN concat(kept, named, FALSE, FALSE).df

apply_powerplants_filter(p, ppl_query) ==
  IF IsStr(ppl_query)
  THEN SelectSeq(p, LAMBDA r : EvalQuery(ppl_query, r))
  ELSE p

\* set(countries) - set(ppl.Country.unique())
countries_wo_ppl_all(p, countries) == Range(countries)

countries_wo_ppl(p, countries) ==
  Range(countries) \ {r.Country : r \in Range(p)}

\* ppl.dropna(subset=["lat", "lon"])
dropna(p) == SelectSeq(p, LAMBDA r : r.lat # NaN /\ r.lon # NaN)

\* the buses map_country_bus may give a plant: one of its country, or none
BusChoices(r, substations) ==
  {s.id : s \in {t \in Range(substations) : t.country = r.Country}} \cup {NA}

Locations(p) == {<<r.Country, r.lon, r.lat>> : r \in Range(p)}

bus_null_b(p) == [i \in DOMAIN p |-> p[i].bus = NA]

bus_null_sum(p) == Cardinality({i \in DOMAIN p : bus_null_b(p)[i]})

drop_null_bus_keep_all(p) == p

drop_null_bus(p) == SelectSeq(p, LAMBDA r : r.bus # NA)

\* ppl.groupby(["bus", "Fueltype"]).cumcount() + 1
cumcount(p) ==
  [i \in DOMAIN p |->
     Cardinality({j \in 1..(i - 1) : /\ p[j].bus = p[i].bus
                                     /\ p[j].Fueltype = p[i].Fueltype}) + 1]

dedup_names_zero_based(p) ==
  LET cc == cumcount(p)
  IN [i \in DOMAIN p |->
        IF cc[i] = 1 THEN p[i]
        ELSE [p[i] EXCEPT !.Name = Append(p[i].Name, ToString(cc[i] - 1))]]

\* ppl.Name = ppl.Name.where(cumcount == 1, ppl.Name + " " + cumcount)
dedup_names(p) ==
  LET cc == cumcount(p)
  IN [i \in DOMAIN p |->
        IF cc[i] = 1 THEN p[i]
        ELSE [p[i] EXCEPT !.Name = Append(p[i].Name, ToString(cc[i]))]]

\* ---------------------------------------------------------------- inputs
AllBuses ==
  <<[id |-> "b1", x |-> 1, y |-> 1, country |-> "DE"],
    [id |-> "b2", x |-> 2, y |-> 2, country |-> "FR"]>>

SubstationTables == {SubSeq(AllBuses, 1, k) : k \in 0..Len(AllBuses)}

BaseDomain ==
  {Row(<<"A">>, "Coal", "CCGT", "DE", Some(1), Some(1), Some(2000), Some(2040),
       "base"),
   Row(<<"A">>, "Natural Gas", "Steam Turbine", "DE", Some(1), Some(1),
       Some(2010), Some(2050), "base"),
   Row(<<"B">>, "Natural Gas", "Unknown", "FR", Some(2), Some(2), NaN, NaN,
       "base"),
   Row(<<"C">>, "Bioenergy", NA, "DE", NaN, NaN, Some(2000), Some(2040),
       "base"),
   Row(<<"S">>, "Solar", "Pv", "DE", Some(1), Some(1), Some(2010), Some(2050),
       "base")}

OpsdDomain ==
  {Row(<<"O">>, "Bioenergy", NA, "DE", Some(1), Some(1), NaN, NaN, "opsd"),
   Row(<<"W">>, "Wind", "Onshore", "DE", Some(1), Some(1), NaN, NaN, "opsd")}

CustomDomain ==
  {Row(<<"A">>, "Natural Gas", "CCGT", "DE", Some(1), Some(1), Some(2000),
       Some(2040), "custom"),
   Row(<<"K">>, "Natural Gas", "Steam Turbine", "FR", Some(2), Some(2), NaN,
       NaN, "custom")}

EverywhereFuels == {"Natural Gas", "Coal"}

Configs ==
  [countries : {<<"DE">>, <<"DE", "FR">>},
   powerplants_filter : {QBool(FALSE), QStr("not in", {"DE"})},
   custom_powerplants : {QBool(FALSE), QBool(TRUE), QStr("in", {"DE"})},
   everywhere_powerplants : SeqsUpTo(EverywhereFuels, MaxEvery),
   substations : SubstationTables]

NoOutput == [written |-> FALSE, rows |-> <<>>]

\* the record sets kept for comparison: the input and the result of one pass
NoSnap == [input |-> <<>>, once |-> <<>>]

\* ---------------------------------------------------------------- pipeline
Init ==
  /\ pc = "fetch"
  /\ ppl = <<>>
  /\ cfg \in Configs
  /\ warnings = <<>>
  /\ customRead = FALSE
  /\ output = NoOutput
  /\ snap = NoSnap

Fetch ==
  /\ pc = "fetch"
  /\ \E raw \in SeqsUpTo(BaseDomain, MaxBase) :
        ppl' = base_powerplants(raw, cfg.countries)
  /\ pc' = "biomass"
  /\ UNCHANGED <<cfg, warnings, customRead, output, snap>>

CorrectBioenergy ==
  /\ pc = "biomass"
  /\ \E opsd_raw \in SeqsUpTo(OpsdDomain, MaxOpsd) :
        ppl' = correct_bioenergy(ppl, opsd_raw, cfg.countries)
  /\ pc' = "filter"
  /\ UNCHANGED <<cfg, warnings, customRead, output, snap>>

PowerplantsFilter ==
  /\ pc = "filter"
  /\ ppl' = apply_powerplants_filter(ppl, cfg.powerplants_filter)
  /\ pc' = "custom"
  /\ UNCHANGED <<cfg, warnings, customRead, output, snap>>

AddCustom ==
  /\ pc = "custom"
  /\ \E file \in SeqsUpTo(CustomDomain, MaxCustom) :
        LET res == add_custom_powerplants(ppl, file, cfg.custom_powerplants)
        IN /\ ppl' = res.df
           /\ customRead' = res.read
           /\ pc' = IF res.raised THEN "failed" ELSE "check"
  /\ UNCHANGED <<cfg, warnings, output, snap>>

CheckCountries ==
  /\ pc = "check"
  /\ LET missing == countries_wo_ppl(ppl, cfg.countries)
     IN warnings' = IF missing # {}
                    THEN Append(warnings,
                                [kind |-> "countries", countries |-> missing,
                                 count |-> 0])
                    ELSE warnings
  /\ pc' = "everywhere"
  /\ UNCHANGED <<ppl, cfg, customRead, output, snap>>

AddEverywhere ==
  /\ pc = "everywhere"
  /\ LET res == add_everywhere_powerplants(ppl, cfg.substations,
                                           cfg.everywhere_powerplants)
     IN /\ ppl' = res.df
        /\ pc' = IF res.raised THEN "failed" ELSE "dropna"
  /\ UNCHANGED <<cfg, warnings, customRead, output, snap>>

DropNa ==
  /\ pc = "dropna"
  /\ ppl' = dropna(ppl)
  /\ pc' = "mapbus"
  /\ UNCHANGED <<cfg, warnings, customRead, output, snap>>

MapCountryBus ==
  /\ pc = "mapbus"
  /\ \E f \in [Locations(ppl) -> {s.id : s \in Range(cfg.substations)}
                                   \cup {NA}] :
        /\ \A r \in Range(ppl) :
              f[<<r.Country, r.lon, r.lat>>] \in BusChoices(r, cfg.substations)
        /\ ppl' = [i \in DOMAIN ppl |->
                     [ppl[i] EXCEPT
                        !.bus = f[<<ppl[i].Country, ppl[i].lon, ppl[i].lat>>]]]
  /\ pc' = "dropnull"
  /\ UNCHANGED <<cfg, warnings, customRead, output, snap>>

DropNullBus ==
  /\ pc = "dropnull"
  /\ IF \E i \in DOMAIN ppl : bus_null_b(ppl)[i]
     THEN /\ warnings' = Append(warnings,
                                [kind |-> "bus", countries |-> {},
                                 count |-> bus_null_sum(ppl)])
          /\ ppl' = drop_null_bus(ppl)
     ELSE UNCHANGED <<warnings, ppl>>
  /\ pc' = "dedup"
  /\ UNCHANGED <<cfg, customRead, output, snap>>

Dedup ==
  /\ pc = "dedup"
  /\ ppl' = dedup_names(ppl)
  /\ pc' = "write"
  /\ UNCHANGED <<cfg, warnings, customRead, output, snap>>

Write ==
  /\ pc = "write"
  /\ output' = [written |-> TRUE, rows |-> Labelled(ppl)]
  /\ pc' = "done"
  /\ UNCHANGED <<ppl, cfg, warnings, customRead, snap>>

Next ==
  \/ Fetch
  \/ CorrectBioenergy
  \/ PowerplantsFilter
  \/ AddCustom
  \/ CheckCountries
  \/ AddEverywhere
  \/ DropNa
  \/ MapCountryBus
  \/ DropNullBus
  \/ Dedup
  \/ Write

Spec == Init /\ [][Next]_vars

\* ------------------------------------------------- canonicalization alone
\* The two column rewrites of the assign chain, applied twice in sequence to
\* an arbitrary record set.
CanonFuels == {"Natural Gas", "Coal", "Bioenergy"}
CanonTechs ==
  {NA, "Steam Turbine", "Combustion Engine", "OCGT", "CCGT", "Unknown"}

CanonDomain ==
  {Row(<<"A">>, f, t, "DE", Some(1), Some(1), NaN, NaN, "base") :
     f \in CanonFuels, t \in CanonTechs}

DefaultCfg ==
  [countries |-> <<"DE">>, powerplants_filter |-> QBool(FALSE),
   custom_powerplants |-> QBool(FALSE), everywhere_powerplants |-> <<>>,
   substations |-> AllBuses]

CanonInit ==
  /\ pc = "tech1"
  /\ ppl \in SeqsUpTo(CanonDomain, MaxCanonRows)
  /\ cfg = DefaultCfg
  /\ warnings = <<>>
  /\ customRead = FALSE
  /\ output = NoOutput
  /\ snap = [input |-> ppl, once |-> <<>>]

CanonTechnology ==
  /\ pc \in {"tech1", "tech2"}
  /\ ppl' = assign_Technology(ppl)
  /\ pc' = IF pc = "tech1" THEN "fuel1" ELSE "fuel2"
  /\ UNCHANGED <<cfg, warnings, customRead, output, snap>>

CanonFueltype ==
  /\ pc \in {"fuel1", "fuel2"}
  /\ ppl' = assign_Fueltype(ppl)
  /\ snap' = IF pc = "fuel1" THEN [snap EXCEPT !.once = ppl'] ELSE snap
  /\ pc' = IF pc = "fuel1" THEN "tech2" ELSE "canon_done"
  /\ UNCHANGED <<cfg, warnings, customRead, output>>

CanonNext ==
  \/ CanonTechnology
  \/ CanonFueltype

SpecCanon == CanonInit /\ [][CanonNext]_vars

\* ------------------------------------------------- deduplication alone
\* The name deduplication and the write, from an arbitrary record set whose
\* rows all have a bus.
DedupNames == {<<"Plant", "A">>, <<"Plant", "A", "2">>}

DedupDomain ==
  {[Row(n, f, "Steam Turbine", "DE", Some(1), Some(1), NaN, NaN, "base")
      EXCEPT !.bus = b] :
     n \in DedupNames, f \in {"Coal", "Lignite"}, b \in {"b1", "b2"}}

DedupInit ==
  /\ pc = "dedup"
  /\ \E rows \in SeqsUpTo(DedupDomain, MaxDedupRows) : ppl = Labelled(rows)
  /\ cfg = DefaultCfg
  /\ warnings = <<>>
  /\ customRead = FALSE
  /\ output = NoOutput
  /\ snap = NoSnap

DedupNext ==
  \/ Dedup
  \/ Write

SpecDedup == DedupInit /\ [][DedupNext]_vars

\* ================================================================ claims
GasTechs == {"OCGT", "CCGT"}

SameGroup(r, q) == r.bus = q.bus /\ r.Fueltype = q.Fueltype

CountryWarnings(ws, c) ==
  Cardinality({i \in DOMAIN ws :
                 ws[i].kind = "countries" /\ c \in ws[i].countries})

BusWarningCounts(ws) ==
  LET bw == SelectSeq(ws, LAMBDA w : w.kind = "bus")
  IN [i \in DOMAIN bw |-> bw[i].count]

DuplicatePair(df, i, j) == i < j /\ Cols(df[i]) = Cols(df[j])

HasDuplicateRows(df) == \E i, j \in DOMAIN df : DuplicatePair(df, i, j)

C3_DuplicateRowsFail ==
  ((pc = "check" /\ customRead) \/ pc = "dropna") => ~HasDuplicateRows(ppl)

\* C3 (amended): neither the custom merge nor the everywhere synthesis ever
\* fails: the result is labelled 0..n-1, whatever rows it holds, and the
\* run goes on.
C3_ConcatNeverFails ==
  /\ pc # "failed"
  /\ ((pc = "check" /\ customRead) \/ pc = "dropna")
       => \A i \in DOMAIN ppl : ppl[i].idx = i - 1

C3_Witness ==
  /\ pc = "dropna"
  /\ customRead
  /\ \E i, j \in DOMAIN ppl :
        DuplicatePair(ppl, i, j) /\ ppl[j].origin = "custom"
  /\ \E i, j \in DOMAIN ppl :
        DuplicatePair(ppl, i, j) /\ ppl[j].origin = "everywhere"

\* C4 (as stated): when the run is done, a target country is named by
\* exactly one warning if it has no plant in the final plant set, and by
\* none if it has one.
C4_WarningMatchesOutput ==
  pc = "done" =>
    \A c \in Range(cfg.countries) :
      CountryWarnings(warnings, c) =
        IF c \in {r.Country : r \in Range(output.rows)} THEN 0 ELSE 1

\* C4 (amended): the coverage check names, exactly once, each target
\* country without a plant in the record set as it is right after the
\* custom merge, names no country that has one there, and the run goes on
\* to the everywhere synthesis; no other step warns about countries.
C4_WarningMatchesMergedSet ==
  [][/\ pc = "check" =>
          /\ pc' = "everywhere"
          /\ \A c \in Range(cfg.countries) :
                CountryWarnings(warnings', c) =
                  IF c \in {r.Country : r \in Range(ppl)} THEN 0 ELSE 1
     /\ pc # "check" =>
          \A c \in Range(cfg.countries) :
            CountryWarnings(warnings', c) = CountryWarnings(warnings, c)]_vars

C4_Witness ==
  /\ pc = "done"
  /\ output.written
  /\ cfg.countries = <<"DE", "FR">>
  /\ CountryWarnings(warnings, "FR") = 1
  /\ CountryWarnings(warnings, "DE") = 0
  /\ "FR" \in {r.Country : r \in Range(output.rows)}

\* C5: the null-bus drop removes exactly the records without a bus, warns
\* exactly when there is one, with the number removed as the count, and
\* every row written has a bus.
C5_NullBusDropped ==
  [][/\ pc = "dropnull" =>
          /\ ppl' = SelectSeq(ppl, LAMBDA r : r.bus # NA)
          /\ BusWarningCounts(warnings') =
               IF \E r \in Range(ppl) : r.bus = NA
               THEN <<Len(ppl) - Len(ppl')>>
               ELSE <<>>
     /\ pc # "dropnull" =>
          BusWarningCounts(warnings') = BusWarningCounts(warnings)
     /\ pc' = "done" => \A r \in Range(output'.rows) : r.bus # NA]_vars

C5_Witness ==
  /\ pc = "done"
  /\ BusWarningCounts(warnings) = <<2>>
  /\ Len(output.rows) > 0

\* C6: the everywhere synthesis returns the base rows unchanged, followed by
\* N*K new rows with Capacity 0.0, no Efficiency and Technology equal to
\* Fueltype, one per (substation, fuel type) pair and placed at its
\* substation.
C6_EverywhereCrossProduct ==
  [][pc = "everywhere" =>
       LET subs == cfg.substations
           fuels == cfg.everywhere_powerplants
           n == Len(ppl)
           new == (n + 1)..Len(ppl')
           distinct == \A a, b \in DOMAIN fuels : fuels[a] = fuels[b] => a = b
       IN /\ Len(ppl') = n + Len(subs) * Len(fuels)
          /\ \A i \in 1..n : Cols(ppl'[i]) = Cols(ppl[i])
          /\ \A k \in new :
                /\ ppl'[k].Capacity = 0
                /\ ppl'[k].Efficiency = NaN
                /\ ppl'[k].Technology = ppl'[k].Fueltype
          /\ distinct =>
               \A s \in Range(subs), f \in Range(fuels) :
                 Cardinality({k \in new :
                                /\ ppl'[k].Fueltype = f
                                /\ ppl'[k].lon = Some(s.x)
                                /\ ppl'[k].lat = Some(s.y)
                                /\ ppl'[k].Country = s.country}) = 1]_vars

C6_Witness ==
  /\ pc = "dropna"
  /\ Len(cfg.substations) = 2
  /\ cfg.everywhere_powerplants = <<"Natural Gas", "Coal">>
  /\ Len(ppl) = 6
  /\ ppl[1].origin = "base"
  /\ ppl[6].origin = "everywhere"

\* C7: the technology rewrite turns the Technology of a "Natural Gas" row
\* into CCGT for Steam Turbine, OCGT for Combustion Engine, and CCGT for any
\* other or missing value that is not already OCGT or CCGT; other rows keep
\* their Technology.
C7Expected(r) ==
  IF r.Fueltype # "Natural Gas" THEN r.Technology
  ELSE IF r.Technology = "Combustion Engine" \/ r.Technology = "OCGT"
       THEN "OCGT"
       ELSE "CCGT"

C7_TechnologyCanonical ==
  [][pc = "tech1" =>
       \A i \in DOMAIN ppl : ppl'[i].Technology = C7Expected(ppl[i])]_vars

\* C8: the deduplication leaves the first row of every (bus, Fueltype)
\* group its Name and renames the k-th to "<Name> k", in row order, and
\* changes nothing else.
C8_RenamedByPosition ==
  [][pc = "dedup" =>
       /\ Len(ppl') = Len(ppl)
       /\ \A i \in DOMAIN ppl :
             LET k == Cardinality({j \in 1..i : SameGroup(ppl[j], ppl[i])})
             IN /\ ppl'[i].Name = IF k = 1 THEN ppl[i].Name
                                  ELSE ppl[i].Name \o <<ToString(k)>>
                /\ [ppl'[i] EXCEPT !.Name = <<>>]
                     = [ppl[i] EXCEPT !.Name = <<>>]]_vars

C8_Witness ==
  /\ pc = "write"
  /\ Len(ppl) = 3
  /\ \A i \in 1..3 : ppl[i].bus = "b1" /\ ppl[i].Fueltype = "Coal"
  /\ ppl[1].Name = <<"Plant", "A">>
  /\ ppl[2].Name = <<"Plant", "A", "2">>
  /\ ppl[3].Name = <<"Plant", "A", "3">>

\* C9: the technology rewrite followed by the fueltype rewrite, applied to
\* a record set that has been through both, changes nothing.
C9_CanonIdempotent ==
  pc = "canon_done" => ppl = snap.once

C9_Witness ==
  /\ pc = "canon_done"
  /\ Len(snap.input) = 2
  /\ snap.input[1].Technology # snap.once[1].Technology
  /\ snap.input[2].Fueltype # snap.once[2].Fueltype
  /\ ppl = snap.once

\* C10: with the filter argument false the custom merge returns the record
\* set it was given and does not read the custom source.
C10_CustomFalseNoOp ==
  [][(pc = "custom" /\ cfg.custom_powerplants = QBool(FALSE)) =>
       /\ ppl' = ppl
       /\ customRead' = FALSE
       /\ pc' = "check"]_vars

C10_Witness ==
  /\ pc = "check"
  /\ cfg.custom_powerplants = QBool(FALSE)
  /\ Len(ppl) = 2
  /\ ~customRead

====
